---- MODULE Spec2Model ----
(***************************************************************************)
(* Model of essay_writer_console.py: the LangGraph revision workflow       *)
(* (planner -> research_plan -> generate -> [should_continue] -> reflect   *)
(* -> research_critique -> generate ...) and search_with_fallback, the     *)
(* Tavily-then-Google search resolver.                                     *)
(*                                                                         *)
(* Opaque values are labelled, not interpreted: the text of the k-th       *)
(* completion is the number k, the i-th snippet of a Tavily answer is      *)
(* <<"T", i>> and of a Google answer <<"G", i>>.  A character is a natural *)
(* number, 0 being whitespace; a string is a sequence of characters.       *)
(***************************************************************************)
EXTENDS Integers, Sequences, FiniteSets, TLC

\* ---------------------------------------------------------------- bounds
\* largest max_revisions explored (main() itself uses 3)
MaxRevisions == 2
\* most lines in a query-generation completion
MaxLines == 4
\* most results one provider hands back for one call
MaxProv == 3
\* most snippets the providers hand back over a run of several research nodes
MaxContent == 2

\* ------------------------------------------------------- program constants
\* search_with_fallback(q, max_results=2) in both research nodes
MAX_RESULTS == 2
\* queries[:3]
QUERY_CAP == 3

\* room for the nodes of a run with max_revisions = n: 3 * (max(n, 0) + 1) of
\* them run to completion
MaxSteps(n) == 3 * ((IF n > 0 THEN n ELSE 0) + 2)

VARIABLES
    pc,               \* node the graph runs next, or "main", "END", "aborted", "rejected"
    task, plan, draft, critique, content, revision_number, max_revisions,  \* AgentState
    GOOGLE_API_KEY, GOOGLE_CSE_ID,   \* TRUE iff the environment variable is set and non-empty
    queries,          \* research node: the queries of queries[:3] not yet searched
    local_content,    \* research node: its local list `content`
    nlines,           \* research node: number of lines of the completion that are not blank
    searched,         \* research node: the calls of search_with_fallback made so far, in order
    entry_content,    \* state['content'] when the current/last research node was entered
    last,             \* the most recent call of search_with_fallback
    completions,      \* number of calls of call_mistral_api that returned
    error,            \* what aborted the run, "" if nothing did
    trace,            \* nodes that ran to completion, in order
    branches,         \* the evaluations of should_continue: after which node, on what, the answer
    in_loop,          \* research node: TRUE from the completion's return to the node's return
    primary_calls     \* calls of tavily.search made in the run

vars == <<pc, task, plan, draft, critique, content, revision_number, max_revisions,
          GOOGLE_API_KEY, GOOGLE_CSE_ID, queries, local_content, nlines, searched,
          entry_content, last, completions, error, trace, branches, in_loop,
          primary_calls>>

stateVars == <<task, plan, draft, critique, content, revision_number, max_revisions>>
envVars == <<GOOGLE_API_KEY, GOOGLE_CSE_ID>>
researchVars == <<queries, local_content, nlines, searched, entry_content, in_loop>>

\* ------------------------------------------------------------------ strings
WS == 0

RECURSIVE LStrip(_)
LStrip(s) == IF s # <<>> /\ Head(s) = WS THEN LStrip(Tail(s)) ELSE s

RECURSIVE RStrip(_)
RStrip(s) ==
    IF s # <<>> /\ s[Len(s)] = WS THEN RStrip(SubSeq(s, 1, Len(s) - 1)) ELSE s

\* .strip() dropped
Strip_none(s) == s

\* str.strip()
Strip(s) == RStrip(LStrip(s))

\* the slice dropped
Take_all(s, n) == s

\* seq[:n]
Take(s, n) == SubSeq(s, 1, IF Len(s) < n THEN Len(s) ELSE n)

IsPrefix(s, t) == Len(s) <= Len(t) /\ SubSeq(t, 1, Len(s)) = s

\* -------------------------------------------------------- search providers
\* What tavily.search(...) does: raises, or returns a value that is no dict,
\* or a dict whose 'results' holds n items, item `bad` (if not 0) lacking 'content'.
TavilyResponses ==
    { [kind |-> "raise", n |-> 0, bad |-> 0], [kind |-> "nondict", n |-> 0, bad |-> 0] }
    \cup { r \in [kind : {"dict"}, n : 0..MaxProv, bad : 0..MaxProv] : r.bad <= r.n }

\* What the HTTP request of google_search does: fails ("error": transport error,
\* error status, undecodable body), or its body decodes to a JSON value that is
\* no object ("nondict", truthy or not), or to an object whose 'items' is a
\* truthy value that is no list ("baditems"), or to an object with n items, item
\* `bad` (if not 0) being a dict without 'snippet' ("nosnippet") or no dict at all.
GoogleResponses ==
    { [kind |-> "error", truthy |-> FALSE, n |-> 0, bad |-> 0, badkind |-> "none"],
      [kind |-> "nondict", truthy |-> FALSE, n |-> 0, bad |-> 0, badkind |-> "none"],
      [kind |-> "nondict", truthy |-> TRUE, n |-> 0, bad |-> 0, badkind |-> "none"],
      [kind |-> "baditems", truthy |-> TRUE, n |-> 0, bad |-> 0, badkind |-> "none"] }
    \cup { [kind |-> "dict", truthy |-> (n > 0), n |-> n, bad |-> 0, badkind |-> "none"] :
             n \in 0..MaxProv }
    \cup { r \in [kind : {"dict"}, truthy : {TRUE}, n : 1..MaxProv, bad : 1..MaxProv,
                   badkind : {"nosnippet", "nondict"}] : r.bad <= r.n }

\* no answer: no call was made
Uncalled == [kind |-> "uncalled", truthy |-> FALSE, n |-> 0, bad |-> 0, badkind |-> "none"]

NoSnippet == <<"", 0>>

\* `if results:` dropped: an empty result list is returned as it is
TavilyAttempt_noEmptyCheck(tav) ==
    IF tav.kind = "dict" /\ tav.bad = 0
    THEN [returned |-> TRUE, value |-> [i \in 1..tav.n |-> <<"T", i>>]]
    ELSE [returned |-> FALSE, value |-> <<>>]

\* the early return taken only for a single result
TavilyAttempt_single(tav) ==
    IF tav.kind = "dict" /\ tav.n = 1 /\ tav.bad = 0
    THEN [returned |-> TRUE, value |-> [i \in 1..tav.n |-> <<"T", i>>]]
    ELSE [returned |-> FALSE, value |-> <<>>]

\* try-block of search_with_fallback: "return" with the contents, or falls
\* through to the fallback (no results, or an exception that is caught).
TavilyAttempt(tav) ==
    IF tav.kind = "dict" /\ tav.n > 0 /\ tav.bad = 0
    THEN [returned |-> TRUE, value |-> [i \in 1..tav.n |-> <<"T", i>>]]
    ELSE [returned |-> FALSE, value |-> <<>>]

\* google_search: the decoded body, or None ("error") when anything raised
google_search(goo) == goo

\* `or` for `and`
GoogleConfigured_or(key, cse) == key \/ cse

GoogleConfigured(key, cse) == key /\ cse

\* The fallback branch, entered with the value google_search returned.
\* outcome "return": the snippets; "fallthrough": to the final return [];
\* "raise": an exception nothing catches.
GoogleAttempt(sr) ==
    IF sr.kind = "error" \/ ~sr.truthy
    THEN [outcome |-> "fallthrough", value |-> <<>>]
    ELSE IF sr.kind \in {"nondict", "baditems"}
    THEN [outcome |-> "raise", value |-> <<>>]
    ELSE IF sr.n = 0
    THEN [outcome |-> "fallthrough", value |-> <<>>]
    ELSE IF sr.bad # 0 /\ sr.badkind = "nondict"
    THEN [outcome |-> "raise", value |-> <<>>]
    ELSE [outcome |-> "return",
          value |-> [i \in 1..sr.n |-> IF i = sr.bad THEN NoSnippet ELSE <<"G", i>>]]

\* the final `return []` turned into an exception
SearchWithFallback_raises(query, max_results, tav, goo, key, cse) ==
    LET t == TavilyAttempt(tav)
        g == GoogleAttempt(google_search(goo))
    IN  IF t.returned
        THEN [tavily_calls |-> 1, google_calls |-> 0, calls |-> <<"tavily">>,
              raised |-> FALSE, ret |-> t.value]
        ELSE IF GoogleConfigured(key, cse)
        THEN [tavily_calls |-> 1, google_calls |-> 1, calls |-> <<"tavily", "google">>,
              raised |-> (g.outcome # "return"),
              ret |-> IF g.outcome = "return" THEN g.value ELSE <<>>]
        ELSE [tavily_calls |-> 1, google_calls |-> 0, calls |-> <<"tavily">>,
              raised |-> TRUE, ret |-> <<>>]

\* Tavily tried a second time before the fallback
SearchWithFallback_retry(query, max_results, tav, goo, key, cse) ==
    LET t == TavilyAttempt(tav)
        g == GoogleAttempt(google_search(goo))
    IN  IF t.returned
        THEN [tavily_calls |-> 1, google_calls |-> 0, calls |-> <<"tavily">>,
              raised |-> FALSE, ret |-> t.value]
        ELSE IF GoogleConfigured(key, cse)
        THEN [tavily_calls |-> 2, google_calls |-> 1,
              calls |-> <<"tavily", "tavily", "google">>,
              raised |-> (g.outcome = "raise"),
              ret |-> IF g.outcome = "return" THEN g.value ELSE <<>>]
        ELSE [tavily_calls |-> 2, google_calls |-> 0, calls |-> <<"tavily", "tavily">>,
              raised |-> FALSE, ret |-> <<>>]

\* search_with_fallback(query, max_results), the providers answering tav and goo
\* for that query: what it returns or that it raised, and the calls it made
SearchWithFallback(query, max_results, tav, goo, key, cse) ==
    LET t == TavilyAttempt(tav)
        g == GoogleAttempt(google_search(goo))
    IN  IF t.returned
        THEN [tavily_calls |-> 1, google_calls |-> 0, calls |-> <<"tavily">>,
              raised |-> FALSE, ret |-> t.value]
        ELSE IF GoogleConfigured(key, cse)
        THEN [tavily_calls |-> 1, google_calls |-> 1, calls |-> <<"tavily", "google">>,
              raised |-> (g.outcome = "raise"),
              ret |-> IF g.outcome = "return" THEN g.value ELSE <<>>]
        ELSE [tavily_calls |-> 1, google_calls |-> 0, calls |-> <<"tavily">>,
              raised |-> FALSE, ret |-> <<>>]

\* a call as observed: its arguments, what each provider answers (or would
\* answer) for them, and what search_with_fallback did
Observed(query, max_results, tav, goo, key, cse) ==
    [query |-> query, max_results |-> max_results, tav |-> tav, goo |-> goo]
    @@ SearchWithFallback(query, max_results, tav, goo, key, cse)

\* no call of search_with_fallback yet
NoCall ==
    [query |-> <<>>, max_results |-> 0, tav |-> [kind |-> "uncalled", n |-> 0, bad |-> 0],
     tavily_calls |-> 0, goo |-> Uncalled, google_calls |-> 0, calls |-> <<>>,
     raised |-> FALSE, ret |-> <<>>]

\* ------------------------------------------------------------- completions
\* call_mistral_api returns the decoded body ("ok"), or requests.post raises
\* ("transport_error"), or raise_for_status does ("http_error", logged and
\* re-raised); "malformed": the body has no ['choices'][0]['text'], so the node raises.
CompletionOutcomes == {"ok", "http_error", "transport_error", "malformed"}

\* The texts a query-generation completion may return, as the lines of
\* text.split('\n'): each line is whitespace, a query or a padded query; the
\* j-th line that holds a query holds the query <<j>>.
LineShapes == {"blank", "plain", "padded"}

Rank(s, i) == Cardinality({j \in 1..i : s[j] \in {"plain", "padded"}})

LineOf(s, i) ==
    CASE s[i] = "blank" -> <<WS>>
      [] s[i] = "plain" -> <<Rank(s, i)>>
      [] s[i] = "padded" -> <<WS, Rank(s, i), WS>>

Texts ==
    UNION { { [i \in 1..k |-> LineOf(s, i)] : s \in [1..k -> LineShapes] } : k \in 1..MaxLines }

\* the lines of a text that hold a character other than whitespace
NonBlankLines(lines) ==
    Cardinality({i \in 1..Len(lines) : \E j \in 1..Len(lines[i]) : lines[i][j] # WS})

\* the filter `if q.strip()` dropped
NonEmpty_all(q) == TRUE

NonEmpty(q) == q # <<>>

\* [q.strip() for q in text.split('\n') if q.strip()]
ParseQueries(lines) == SelectSeq([i \in 1..Len(lines) |-> Strip(lines[i])], NonEmpty)

\* ------------------------------------------------------------------- graph
\* the increment forgotten
NextRevisionNumber_same(rev) == rev

\* the default of state.get added to the stored number as well
NextRevisionNumber_two(rev) == rev + 2

\* state.get("revision_number", 1) + 1, the key being present
NextRevisionNumber(rev) == rev + 1

\* one revision too many
should_continue_late(rev, max) == IF rev > max + 1 THEN "END" ELSE "reflect"

\* `>=` for `>`
should_continue_ge(rev, max) == IF rev >= max THEN "END" ELSE "reflect"

\* the predicate on the revision number before the increment
should_continue_pre(rev, max) == IF rev - 1 > max THEN "END" ELSE "reflect"

\* the budget taken by its size
should_continue_abs(rev, max) ==
    IF rev > (IF max < 0 THEN 0 - max ELSE max) THEN "END" ELSE "reflect"

should_continue(rev, max) == IF rev > max THEN "END" ELSE "reflect"

\* reflect wired straight to generate
Edge_skip(node) ==
    CASE node = "planner" -> "research_plan"
      [] node = "research_plan" -> "generate"
      [] node = "reflect" -> "generate"
      [] node = "research_critique" -> "generate"

\* builder.add_edge(...)
Edge(node) ==
    CASE node = "planner" -> "research_plan"
      [] node = "research_plan" -> "generate"
      [] node = "reflect" -> "research_critique"
      [] node = "research_critique" -> "generate"

\* content = []
ResearchInitialContent_fresh(c) == <<>>

\* state['content'] or []
ResearchInitialContent(c) == c

Terminal == {"END", "aborted", "rejected"}

Count(node) == Cardinality({i \in 1..Len(trace) : trace[i] = node})

\* the topics typed at the prompt
Topics == { <<>>, <<WS>>, <<WS, WS>>, <<1>>, <<WS, 1, WS>> }

Revisions == (0 - 2)..MaxRevisions

\* The provider answers drawn during a run, one for each way a call of
\* search_with_fallback can end: a provider fails, or hands back results, up
\* to one more than it was asked for, or Google's body is no object.
RunTavilyResponses ==
    { t \in TavilyResponses : /\ t.bad = 0 /\ t.n <= MAX_RESULTS + 1
                              /\ t.kind = "raise" \/ (t.kind = "dict" /\ t.n > 0) }

RunGoogleResponses ==
    { g \in GoogleResponses : /\ g.bad = 0 /\ g.truthy = (g.kind # "error")
                              /\ g.n <= MAX_RESULTS + 1
                              /\ g.kind \in {"error", "nondict"} \/ (g.kind = "dict" /\ g.n > 0) }

\* The snippets a run may gather: the one research node of a run with
\* max_revisions <= 0 is explored without a cap (the room is for one query
\* more than queries[:3] lets through), a longer run up to MaxContent.
ContentCap(node, n) ==
    IF node = "research_plan" /\ n <= 0
    THEN (QUERY_CAP + 1) * (MAX_RESULTS + 1)
    ELSE MaxContent

Init ==
    /\ pc = "main"
    /\ task = <<>> /\ plan = 0 /\ draft = 0 /\ critique = 0 /\ content = <<>>
    /\ revision_number = 0 /\ max_revisions = 0
    /\ GOOGLE_API_KEY \in BOOLEAN /\ GOOGLE_CSE_ID \in BOOLEAN
    /\ queries = <<>> /\ local_content = <<>> /\ nlines = 0 /\ searched = <<>>
    /\ entry_content = <<>> /\ in_loop = FALSE
    /\ last = NoCall /\ completions = 0 /\ error = "" /\ trace = <<>> /\ branches = <<>>
    /\ primary_calls = 0

\* main(): the prompt, the check of the topic, graph.invoke with the initial state
Main ==
    /\ pc = "main"
    /\ \E input \in Topics, n \in Revisions :
        LET essay_topic == Strip(input)
        IN  IF essay_topic = <<>>
            THEN /\ pc' = "rejected"
                 /\ UNCHANGED stateVars
            ELSE /\ pc' = "planner"
                 /\ task' = essay_topic /\ max_revisions' = n /\ revision_number' = 0
                 /\ content' = <<>> /\ plan' = 0 /\ draft' = 0 /\ critique' = 0
    /\ UNCHANGED <<envVars, researchVars, last, completions, error, trace, branches,
                   primary_calls>>

\* the exception swallowed: graph.invoke returns the state as it is
Abort_returns(why) ==
    /\ pc' = "END" /\ error' = why
    /\ UNCHANGED <<stateVars, envVars, researchVars, last, completions, trace, branches,
                   primary_calls>>

\* an exception leaves graph.invoke
Abort(why) ==
    /\ pc' = "aborted" /\ error' = why
    /\ UNCHANGED <<stateVars, envVars, researchVars, last, completions, trace, branches,
                   primary_calls>>

plan_node ==
    /\ pc = "planner" /\ Len(trace) < MaxSteps(max_revisions)
    /\ \E out \in CompletionOutcomes :
        IF out # "ok" THEN Abort(out)
        ELSE /\ completions' = completions + 1
             /\ plan' = completions'
             /\ pc' = Edge("planner")
             /\ trace' = Append(trace, "planner")
             /\ UNCHANGED <<task, draft, critique, content, revision_number, max_revisions,
                            envVars, researchVars, last, error, branches, primary_calls>>

\* generation_node, then the conditional edge out of "generate"
generation_node ==
    /\ pc = "generate" /\ Len(trace) < MaxSteps(max_revisions)
    /\ \E out \in CompletionOutcomes :
        IF out # "ok" THEN Abort(out)
        ELSE /\ completions' = completions + 1
             /\ draft' = completions'
             /\ revision_number' = NextRevisionNumber(revision_number)
             /\ pc' = should_continue(revision_number', max_revisions)
             /\ trace' = Append(trace, "generate")
             /\ branches' = Append(branches, [after |-> "generate", rev |-> revision_number',
                                              answer |-> pc'])
             /\ UNCHANGED <<task, plan, critique, content, max_revisions,
                            envVars, researchVars, last, error, primary_calls>>

reflection_node ==
    /\ pc = "reflect" /\ Len(trace) < MaxSteps(max_revisions)
    /\ \E out \in CompletionOutcomes :
        IF out # "ok" THEN Abort(out)
        ELSE /\ completions' = completions + 1
             /\ critique' = completions'
             /\ pc' = Edge("reflect")
             /\ trace' = Append(trace, "reflect")
             /\ UNCHANGED <<task, plan, draft, content, revision_number, max_revisions,
                            envVars, researchVars, last, error, branches, primary_calls>>

\* research_plan_node / research_critique_node up to the for-loop: the
\* completion, the parsing of its text, content = state['content'] or []
ResearchQueries(node) ==
    /\ pc = node /\ ~in_loop /\ Len(trace) < MaxSteps(max_revisions)
    /\ \E out \in CompletionOutcomes :
        IF out # "ok" THEN Abort(out)
        ELSE \E text \in Texts :
             /\ completions' = completions + 1
             /\ queries' = Take(ParseQueries(text), QUERY_CAP)
             /\ nlines' = NonBlankLines(text)
             /\ local_content' = ResearchInitialContent(content)
             /\ entry_content' = content
             /\ searched' = <<>>
             /\ in_loop' = TRUE
             /\ UNCHANGED <<pc, stateVars, envVars, last, error, trace, branches,
                            primary_calls>>

\* one turn of the for-loop: search_with_fallback(q, max_results=2), content.extend(...).
\* The local list is state['content'] itself unless that was empty.  Google
\* answers only when it is asked.
ResearchSearch(node) ==
    /\ pc = node /\ in_loop /\ queries # <<>>
    /\ \E tav \in RunTavilyResponses, goo \in RunGoogleResponses \cup {Uncalled} :
        LET r == Observed(Head(queries), MAX_RESULTS, tav, goo,
                          GOOGLE_API_KEY, GOOGLE_CSE_ID)
        IN  /\ (goo = Uncalled) = (r.google_calls = 0)
            /\ Len(local_content) + Len(r.ret) <= ContentCap(node, max_revisions)
            /\ last' = r
            /\ primary_calls' = primary_calls + r.tavily_calls
            /\ IF r.raised
               THEN /\ pc' = "aborted" /\ error' = "search"
                    /\ UNCHANGED <<stateVars, researchVars>>
               ELSE /\ local_content' = local_content \o r.ret
                    /\ content' = IF content # <<>> THEN local_content' ELSE content
                    /\ queries' = Tail(queries)
                    /\ searched' = Append(searched, [query |-> r.query,
                                                     max_results |-> r.max_results,
                                                     ret |-> r.ret])
                    /\ UNCHANGED <<pc, error, task, plan, draft, critique, revision_number,
                                   max_revisions, nlines, entry_content, in_loop>>
    /\ UNCHANGED <<envVars, completions, trace, branches>>

\* return {"content": content}; the node's locals are gone
ResearchReturn(node) ==
    /\ pc = node /\ in_loop /\ queries = <<>>
    /\ content' = local_content
    /\ pc' = Edge(node)
    /\ trace' = Append(trace, node)
    /\ in_loop' = FALSE
    /\ queries' = <<>> /\ local_content' = <<>> /\ nlines' = 0 /\ searched' = <<>>
    /\ entry_content' = <<>> /\ last' = NoCall
    /\ UNCHANGED <<task, plan, draft, critique, revision_number, max_revisions, envVars,
                   completions, error, branches, primary_calls>>

research_plan_node ==
    \/ ResearchQueries("research_plan")
    \/ ResearchSearch("research_plan")
    \/ ResearchReturn("research_plan")

research_critique_node ==
    \/ ResearchQueries("research_critique")
    \/ ResearchSearch("research_critique")
    \/ ResearchReturn("research_critique")

Next ==
    \/ Main
    \/ plan_node
    \/ research_plan_node
    \/ generation_node
    \/ reflection_node
    \/ research_critique_node

Spec == Init /\ [][Next]_vars

\* every call in flight returns and the graph runs the next node
FairSpec == Spec /\ WF_vars(Next)

\* ------------------------------------------- the search resolver on its own
Queries == { <<1>> }

SearchCall ==
    /\ \E q \in Queries, m \in 1..MAX_RESULTS, tav \in TavilyResponses, goo \in GoogleResponses :
        last' = Observed(q, m, tav, goo, GOOGLE_API_KEY, GOOGLE_CSE_ID)
    /\ UNCHANGED <<pc, stateVars, envVars, researchVars, completions, error, trace, branches,
                   primary_calls>>

SearchNext == SearchCall

SearchSpec == Init /\ [][SearchNext]_vars

\* ================================================================== claims
ExpectedStage(i) ==
    IF i = 1 THEN "planner"
    ELSE IF i = 2 THEN "research_plan"
    ELSE IF i % 3 = 0 THEN "generate"
    ELSE IF i % 3 = 1 THEN "reflect"
    ELSE "research_critique"

Nodes == {"planner", "research_plan", "generate", "reflect", "research_critique"}

\* the guard on the length of trace never holds a run back
RoomLeft == pc \in Nodes => Len(trace) < MaxSteps(max_revisions)

\* C1: a run with max_revisions = N >= 0 that reaches the terminal state has
\* made exactly N + 1 calls of generate, and revision_number is N + 1 there.
C1_GenerateCount ==
    (pc = "END" /\ max_revisions >= 0)
        => (Count("generate") = max_revisions + 1 /\ revision_number = max_revisions + 1)

C1_Witness ==
    pc = "END" /\ max_revisions = 2 /\ Count("generate") = 3 /\ revision_number = 3

\* C2: when every call returns, the run ends: it reaches the terminal state
\* unless a call raised (aborted) or the topic was blank (rejected).
C2_Terminates == <>(pc = "END" \/ pc = "aborted" \/ pc = "rejected")

C2_Witness == pc = "END" /\ Count("research_critique") = 2 /\ error = ""

\* C3: the branch is taken right after generate and only there, on the
\* incremented revision_number: END iff revision_number > max_revisions,
\* reflect otherwise; every other node has one fixed successor.
C3_Branch ==
    /\ [][(pc = "generate" /\ pc' # "aborted")
            => /\ revision_number' = revision_number + 1
               /\ (pc' = "END") = (revision_number' > max_revisions')
               /\ (pc' # "END") = (pc' = "reflect")]_vars
    /\ [][(pc # "generate") => pc' # "END"]_vars
    /\ [][(pc = "planner" => pc' \in {"planner", "research_plan", "aborted"})
          /\ (pc = "research_plan" => pc' \in {"research_plan", "generate", "aborted"})
          /\ (pc = "reflect" => pc' \in {"reflect", "research_critique", "aborted"})
          /\ (pc = "research_critique" => pc' \in {"research_critique", "generate", "aborted"})
         ]_vars
    /\ [](\A i \in 1..Len(branches) : branches[i].after = "generate")
    /\ [](Len(branches) = Count("generate"))

C3_Witness ==
    /\ pc = "reflect" /\ revision_number = max_revisions
    /\ branches # <<>> /\ branches[Len(branches)].answer = "reflect"

\* C4: the nodes run in the order planner, research_plan, generate, then
\* (reflect, research_critique, generate) repeated; the node to run next is
\* the next of that order, and the terminal state follows a generate.
C4_StageOrder ==
    /\ \A i \in 1..Len(trace) : trace[i] = ExpectedStage(i)
    /\ pc \in Nodes => pc = ExpectedStage(Len(trace) + 1)
    /\ pc = "END" => (Len(trace) >= 3 /\ trace[Len(trace)] = "generate")
    /\ pc \in {"main", "rejected"} => trace = <<>>

C4_Witness == pc = "END" /\ Len(trace) = 9

\* C5: at the terminal state of a run with max_revisions = N >= 0, reflect and
\* research_critique have each run N times, N + 1 research nodes in all; with
\* N = 0 there is one generate and no critique, and the final draft is newer
\* than the last critique.
C5_ReflectCount ==
    (pc = "END" /\ max_revisions >= 0)
        => /\ Count("reflect") = max_revisions
           /\ Count("research_critique") = max_revisions
           /\ Count("research_plan") + Count("research_critique") = max_revisions + 1
           /\ critique < draft
           /\ max_revisions = 0 => (Count("generate") = 1 /\ critique = 0)

C5_Witness == pc = "END" /\ max_revisions = 0 /\ Count("generate") = 1 /\ draft # 0

\* C6: content only grows at its end, and planner, generate and reflect leave it alone.
C6_AppendOnly ==
    [][/\ IsPrefix(content, content')
       /\ pc \in {"planner", "generate", "reflect"} => content' = content]_vars

C6_Witness ==
    /\ pc = "research_critique" /\ in_loop
    /\ entry_content # <<>> /\ Len(content) > Len(entry_content)

\* ------------------------------------------------ claims on one search call
Called == last.tavily_calls = 1

PrimaryOk == last.tav.kind = "dict" /\ last.tav.n >= 1 /\ last.tav.bad = 0

\* the primary raised, or its answer is malformed, or it holds no result
PrimaryFailedOrEmpty ==
    \/ last.tav.kind \in {"raise", "nondict"}
    \/ last.tav.kind = "dict" /\ (last.tav.n = 0 \/ last.tav.bad # 0)

SecondaryOk == last.goo.kind = "dict" /\ last.goo.n >= 1 /\ last.goo.bad = 0

Credentials == GOOGLE_API_KEY /\ GOOGLE_CSE_ID

PrimaryYields == last.tav.kind = "dict" /\ last.tav.n >= 1

SecondaryYields == last.goo.kind = "dict" /\ last.goo.n >= 1

\* C7: the primary failing or empty, the credentials set and the secondary
\* answering with n >= 1 results, the call returns the n snippets in order.
C7_Fallback ==
    (Called /\ PrimaryFailedOrEmpty /\ Credentials /\ SecondaryOk)
        => /\ ~last.raised
           /\ last.ret = [i \in 1..last.goo.n |-> <<"G", i>>]

C7_Witness ==
    /\ Called /\ last.tav.kind = "dict" /\ last.tav.n = 0 /\ Credentials
    /\ last.goo.n = 2 /\ last.ret = << <<"G", 1>>, <<"G", 2>> >>

\* C8: a call of search never raises, whatever the two providers do, and
\* returns the empty sequence when neither yields a result.
C8_NeverRaises ==
    Called => /\ ~last.raised
              /\ (~PrimaryYields /\ ~(Credentials /\ SecondaryYields)) => last.ret = <<>>

\* C9: the primary answering with n >= 1 results, the call returns them and
\* the secondary is not called.
C9_ShortCircuit ==
    (Called /\ PrimaryOk)
        => /\ last.google_calls = 0
           /\ ~last.raised
           /\ last.ret = [i \in 1..last.tav.n |-> <<"T", i>>]

C9_Witness ==
    /\ Called /\ PrimaryOk /\ last.tav.n = 2 /\ Credentials /\ SecondaryOk
    /\ last.google_calls = 0

\* C10: a credential missing, the secondary is never called, and a primary
\* that failed or was empty gives the empty sequence.
C10_NeedsCredentials ==
    (Called /\ ~(GOOGLE_API_KEY /\ GOOGLE_CSE_ID))
        => /\ last.google_calls = 0
           /\ PrimaryFailedOrEmpty => (last.ret = <<>> /\ ~last.raised)

C10_Witness ==
    /\ Called /\ GOOGLE_API_KEY /\ ~GOOGLE_CSE_ID /\ PrimaryFailedOrEmpty /\ SecondaryOk
    /\ last.ret = <<>>

\* C11: a call that returns hands back at most max_results snippets.
C11_AtMostMaxResults == (Called /\ ~last.raised) => Len(last.ret) <= last.max_results

\* ------------------------------------------------ claims on a research node
InResearch == pc \in {"research_plan", "research_critique"} /\ in_loop

RECURSIVE Snippets(_)
Snippets(log) == IF log = <<>> THEN <<>> ELSE Head(log).ret \o Snippets(Tail(log))

AtMost3(k) == IF k < 3 THEN k ELSE 3

\* C12: in a research node whose completion holds k lines that are not blank,
\* the searches made and still to make are those for the first min(k, 3) of
\* these lines, stripped and in order, each made with max_results = 2, and
\* the snippets returned so far follow the content of entry in that order.
C12_QueryCap ==
    in_loop
        => /\ Len(searched) + Len(queries) = AtMost3(nlines)
           /\ \A i \in 1..Len(searched) :
                searched[i].query = <<i>> /\ searched[i].max_results = 2
           /\ \A i \in 1..Len(queries) : queries[i] = <<Len(searched) + i>>
           /\ local_content = entry_content \o Snippets(searched)
           /\ last.raised => (queries # <<>> /\ last.query = Head(queries))

C12_Witness ==
    /\ pc = "research_plan" /\ in_loop /\ queries = <<>> /\ nlines = 4
    /\ Len(searched) = 3
    /\ local_content = << <<"T", 1>>, <<"G", 1>>, <<"T", 1>> >>

\* --------------------------------------------------- claims on a whole run
CompletionFailures == {"http_error", "transport_error", "malformed"}

\* C13: a completion that fails aborts the run where it is: the step that
\* fails runs in a node, completes no node and changes no field of the
\* state, the run is aborted from then on, nothing runs afterwards, and END
\* is not reached.
C13_FatalCompletion ==
    /\ [](error \in CompletionFailures => pc = "aborted")
    /\ [][pc # "aborted"]_vars
    /\ [][(pc' = "aborted" /\ error' \in CompletionFailures)
            => /\ pc \in Nodes
               /\ trace' = trace /\ completions' = completions
               /\ UNCHANGED stateVars]_vars

C13_Witness ==
    /\ pc = "aborted" /\ error = "http_error"
    /\ trace = <<"planner", "research_plan", "generate">> /\ draft # 0 /\ critique = 0

IsBlank(s) == \A i \in 1..Len(s) : s[i] = WS

\* C14: a topic that is empty or all whitespace is rejected: nothing has run,
\* no completion and no search was called, and no state was built; whatever
\* run got past main() has a topic that is not blank.
C14_BlankRejected ==
    /\ pc = "rejected"
         => /\ trace = <<>> /\ completions = 0 /\ last = NoCall /\ error = ""
            /\ task = <<>> /\ plan = 0 /\ draft = 0 /\ critique = 0
            /\ content = <<>> /\ revision_number = 0 /\ ~in_loop
    /\ pc \notin {"main", "rejected"} => ~IsBlank(task)

C14_Witness == pc = "rejected" /\ trace = <<>> /\ completions = 0

\* C15: no node changes task or max_revisions; planner changes only plan,
\* reflect only critique, the research nodes only content, generate only
\* draft and revision_number, which it raises by exactly 1; revision_number
\* never decreases.
C15_Frame ==
    [][/\ pc # "main" => (task' = task /\ max_revisions' = max_revisions)
       /\ pc = "planner" => UNCHANGED <<draft, critique, content, revision_number>>
       /\ pc = "reflect" => UNCHANGED <<plan, draft, content, revision_number>>
       /\ pc \in {"research_plan", "research_critique"}
            => UNCHANGED <<plan, draft, critique, revision_number>>
       /\ pc = "generate"
            => /\ UNCHANGED <<plan, critique, content>>
               /\ pc' # "aborted" => revision_number' = revision_number + 1
               /\ pc' = "aborted" => UNCHANGED <<draft, revision_number>>
       /\ revision_number' >= revision_number]_vars

C15_Witness ==
    /\ pc = "reflect" /\ revision_number = 2 /\ plan # 0 /\ critique # 0
    /\ draft > critique /\ content # <<>>

\* C16: a research node whose completion holds no line that is not blank
\* makes no search, keeps content as it was on entry, and hands over to
\* generate without an error.
C16_NoQueries ==
    /\ []((in_loop /\ nlines = 0)
            => /\ pc \in {"research_plan", "research_critique"}
               /\ queries = <<>> /\ searched = <<>> /\ last = NoCall
               /\ local_content = entry_content /\ content = entry_content
               /\ error = "")
    /\ [][(in_loop /\ nlines = 0)
            => (pc' = "generate" /\ content' = content /\ error' = ""
                /\ primary_calls' = primary_calls)]_vars

C16_Witness ==
    pc = "research_critique" /\ in_loop /\ nlines = 0 /\ content # <<>>

\* a call in which no provider yields a result and Google's body, if asked
\* for, is an object or is missing
Degraded ==
    /\ Called /\ ~PrimaryYields /\ ~SecondaryYields
    /\ last.goo.kind \in {"uncalled", "error", "dict"}

\* C17: searches that find nothing change nothing in the course of the run:
\* such a search returns the empty sequence and aborts nothing, content stays
\* empty as long as every search did so, a run that ends with empty content
\* ends after max_revisions + 1 calls of generate, and a run ends unless
\* content is filled.
C17_DegradedSearch ==
    /\ [](Degraded => (last.ret = <<>> /\ ~last.raised /\ pc # "aborted"))
    /\ []((in_loop /\ entry_content = <<>>
            /\ \A i \in 1..Len(searched) : searched[i].ret = <<>>)
            => (content = <<>> /\ local_content = <<>>))
    /\ []((pc = "END" /\ max_revisions >= 0 /\ content = <<>>)
            => Count("generate") = max_revisions + 1)
    /\ <>(pc = "END" \/ pc = "aborted" \/ pc = "rejected" \/ content # <<>>)

C17_Witness ==
    pc = "END" /\ max_revisions = 1 /\ content = <<>> /\ primary_calls = 6

\* C18: revision_number is the number of calls of generate that returned;
\* with max_revisions = N >= 0 it stays within 0..N+1, and reflect and
\* research_critique run only with 1 <= revision_number <= N.
C18_RevisionRange ==
    /\ revision_number = Count("generate")
    /\ (pc \notin {"main", "rejected"} /\ max_revisions >= 0)
         => /\ 0 <= revision_number /\ revision_number <= max_revisions + 1
            /\ pc \in {"reflect", "research_critique"}
                 => (1 <= revision_number /\ revision_number <= max_revisions)

C18_Witness ==
    pc = "research_critique" /\ in_loop /\ revision_number = 2 /\ max_revisions = 2

\* C19: a run that ends has called generate max(N, 0) + 1 times, so at least
\* once; with N < 0 it did so once and ran neither reflect nor research_critique.
C19_NegativeBudget ==
    pc = "END"
        => /\ Count("generate") = (IF max_revisions > 0 THEN max_revisions ELSE 0) + 1
           /\ max_revisions < 0
                => (Count("reflect") = 0 /\ Count("research_critique") = 0
                    /\ trace = <<"planner", "research_plan", "generate">>)

C19_Witness == pc = "END" /\ max_revisions = 0 - 2 /\ Count("generate") = 1

\* C20: a call of search asks Tavily once, first, and Google at most once;
\* a run with max_revisions = N >= 0 asks Tavily at most 3 * (N + 1) times,
\* and ends with at most 6 * (N + 1) snippets in content when no answer used
\* held more than 2 results.
C20_NoRetry ==
    /\ Called
         => /\ last.tavily_calls = 1 /\ last.google_calls <= 1
            /\ Len(last.calls) = 1 + last.google_calls
            /\ last.calls[1] = "tavily"
            /\ \A i \in 2..Len(last.calls) : last.calls[i] = "google"
    /\ (pc \notin {"main", "rejected"} /\ max_revisions >= 0)
         => primary_calls <= 3 * (max_revisions + 1)
    /\ (pc = "END" /\ max_revisions >= 0 /\ \A i \in 1..Len(content) : content[i][2] <= 2)
         => Len(content) <= 6 * (max_revisions + 1)

C20_Witness ==
    pc = "END" /\ max_revisions = 0 /\ primary_calls = 3 /\ Len(content) = 6

\* providers that hand back more than they were asked for fill content further
C20_OverMax == pc = "END" /\ max_revisions = 0 /\ Len(content) = 9

====
